---------------------------- MODULE Spec2Model ----------------------------
(***************************************************************************)
(* NetIPTV (src/src/App.jsx): the playlist parser, the XMLTV guide parser, *)
(* the name index and the now/next resolution, with the application state  *)
(* that holds their results.                                               *)
(*                                                                         *)
(* Strings are sequences of one-character strings, so that trimming,       *)
(* splitting, regular-expression scans and case folding are computed.      *)
(* An instant is a number of seconds since 1970-01-01T00:00:00Z (the       *)
(* guide's timestamps have a resolution of one second).                    *)
(***************************************************************************)
EXTENDS Integers, Sequences, FiniteSets, TLC

VARIABLES
    text,       \* the playlist text the user has at hand (the file, or the URL's body)
    playlistMeta, \* App state `playlistMeta.sourceType`: "", "file" or "url"
    guideText,  \* the guide text the user has at hand
    channels,   \* App state `channels`: the result of parseM3U
    epg,        \* App state `epg`: null, or the result of parseXMLTV
    lastGood,   \* history: the parse of the most recent well-formed guide text
    epgMeta,    \* App state `epgMeta.sourceType`: "", "file" or "url"
    epgErr,     \* whether the last guide load surfaced a failure to its caller
    rendered,   \* <<>> while a rendering is due, else <<what the channel row shows>>
    dateIn,     \* the attribute value handed to parseXmltvDate
    dateOut,    \* <<>> before the call, then <<the value it returned>>
    favorites,  \* App state `favorites`: the copies toggleFavorite stored, newest first
    query,      \* App state `query`: the text of the search box
    selected,   \* App state `selected`: [row, col]
    effectDue,  \* whether the "keep selected in bounds" effect has yet to run
    nameIn,     \* the argument handed to normalizeName: [undef, s]
    nameOut     \* <<>> before the call, then <<the value it returned>>

vars == <<text, playlistMeta, guideText, channels, epg, lastGood, epgMeta, epgErr,
         rendered, dateIn, dateOut, favorites, query, selected, effectDue, nameIn, nameOut>>
uiVars == <<favorites, query, selected>>
nameVars == <<nameIn, nameOut>>

---------------------------------------------------------------------------
(* Bounds of the model *)

MaxLines == 3
MaxProgs == 3
MaxNameLen == 3

---------------------------------------------------------------------------
(* String primitives of the JavaScript runtime used by App.jsx *)

Digits == {"0", "1", "2", "3", "4", "5", "6", "7", "8", "9"}
UpperSeq == <<"A", "B", "C", "D", "E", "F", "G", "H", "I", "J", "K", "L", "M",
              "N", "O", "P", "Q", "R", "S", "T", "U", "V", "W", "X", "Y", "Z">>
LowerSeq == <<"a", "b", "c", "d", "e", "f", "g", "h", "i", "j", "k", "l", "m",
              "n", "o", "p", "q", "r", "s", "t", "u", "v", "w", "x", "y", "z">>
Uppers == {UpperSeq[i] : i \in 1..26}
Lowers == {LowerSeq[i] : i \in 1..26}

\* \s of a regular expression and the characters String.prototype.trim strips
WhiteSpace == {" ", "\t", "\r", "\n", "\f"}
\* \w of a regular expression
WordChars == Digits \cup Uppers \cup Lowers \cup {"_"}

\* s.substring(from) with a 0-based index, as a 1-based suffix
Drop(s, n) == SubSeq(s, n + 1, Len(s))
Take(s, n) == SubSeq(s, 1, n)

\* s.startsWith(p)
StartsWith(s, p) == Len(s) >= Len(p) /\ SubSeq(s, 1, Len(p)) = p

\* s.indexOf(c) and s.lastIndexOf(c), 0-based, -1 when absent
IndexOf(s, c) ==
    IF \E i \in 1..Len(s) : s[i] = c
    THEN (CHOOSE i \in 1..Len(s) : s[i] = c /\ \A j \in 1..(i - 1) : s[j] # c) - 1
    ELSE -1
LastIndexOf(s, c) ==
    IF \E i \in 1..Len(s) : s[i] = c
    THEN (CHOOSE i \in 1..Len(s) : s[i] = c /\ \A j \in (i + 1)..Len(s) : s[j] # c) - 1
    ELSE -1

\* s.trim()
Trim(s) ==
    IF \A i \in 1..Len(s) : s[i] \in WhiteSpace THEN <<>>
    ELSE LET a == CHOOSE i \in 1..Len(s) :
                     s[i] \notin WhiteSpace /\ \A j \in 1..(i - 1) : s[j] \in WhiteSpace
             b == CHOOSE i \in 1..Len(s) :
                     s[i] \notin WhiteSpace /\ \A j \in (i + 1)..Len(s) : s[j] \in WhiteSpace
         IN  SubSeq(s, a, b)

\* the number of characters of s, from 1-based position i on, before the first
\* one that does not lie in set
RunLen(s, i, set) ==
    CHOOSE n \in 0..(IF i <= Len(s) THEN Len(s) - i + 1 ELSE 0) :
        /\ \A j \in i..(i + n - 1) : s[j] \in set
        /\ i + n > Len(s) \/ s[i + n] \notin set

\* text.split(/\r?\n/): a line ends at "\n", and a "\r" right before it is dropped
RECURSIVE SplitLines(_)
SplitLines(s) ==
    LET n == IndexOf(s, "\n")
    IN  IF n = -1 THEN <<s>>
        ELSE <<IF n >= 1 /\ s[n] = "\r" THEN Take(s, n - 1) ELSE Take(s, n)>>
             \o SplitLines(Drop(s, n + 1))

---------------------------------------------------------------------------
(* parseM3U *)

EXTINF == <<"#", "E", "X", "T", "I", "N", "F">>
K_tvg_name == <<"t", "v", "g", "-", "n", "a", "m", "e">>
K_tvg_id == <<"t", "v", "g", "-", "i", "d">>
K_tvg_logo == <<"t", "v", "g", "-", "l", "o", "g", "o">>
K_tvg_chno == <<"t", "v", "g", "-", "c", "h", "n", "o">>
K_group_title == <<"g", "r", "o", "u", "p", "-", "t", "i", "t", "l", "e">>
Unknown == <<"U", "n", "k", "n", "o", "w", "n">>
Other == <<"O", "t", "h", "e", "r">>

\* attrs[k] of a JavaScript object used as a map: absent reads as falsy, like ""
Get(attrs, k) == IF k \in DOMAIN attrs THEN attrs[k] ELSE <<>>
\* attrs[k] = v that keeps the value a key already has
PutKeepFirst(attrs, k, v) ==
    [x \in DOMAIN attrs \cup {k} |-> IF x \in DOMAIN attrs THEN attrs[x] ELSE v]

\* attrs[k] = v
Put(attrs, k, v) == [x \in DOMAIN attrs \cup {k} |-> IF x = k THEN v ELSE attrs[x]]

\* One attempt of /(\w[\w-]*)\s*=\s*"([^"]*)"/ at 1-based position i of s:
\* <<>> when it does not match there, else <<key, value, position after the match>>.
\* The key run is maximal: a shorter key is followed by a \w or "-", never by \s or "=".
AttrMatchAt(s, i) ==
    IF ~(i <= Len(s) /\ s[i] \in WordChars) THEN <<>>
    ELSE LET kEnd == i + RunLen(s, i, WordChars \cup {"-"})
             eq   == kEnd + RunLen(s, kEnd, WhiteSpace)
         IN  IF ~(eq <= Len(s) /\ s[eq] = "=") THEN <<>>
             ELSE LET q == eq + 1 + RunLen(s, eq + 1, WhiteSpace)
                  IN  IF ~(q <= Len(s) /\ s[q] = "\"") THEN <<>>
                      ELSE LET vEnd == q + 1 + RunLen(s, q + 1, {s[j] : j \in 1..Len(s)} \ {"\""})
                           IN  IF vEnd > Len(s) THEN <<>>
                               ELSE <<SubSeq(s, i, kEnd - 1), SubSeq(s, q + 1, vEnd - 1), vEnd + 1>>

\* parseAttrs: the global regular expression scanned left to right from lastIndex,
\* attrs[m[1]] = m[2] at each match.  A match starts at a \w that no \w precedes (from
\* a later \w of the same run the same attempt fails at the same place).
RECURSIVE ScanAttrs(_, _, _)
ScanAttrs(s, i, attrs) ==
    LET starts == {k \in i..Len(s) : /\ s[k] \in WordChars
                                     /\ k = i \/ s[k - 1] \notin WordChars
                                     /\ AttrMatchAt(s, k) # <<>>}
    IN  IF starts = {} THEN attrs
        ELSE LET k == CHOOSE x \in starts : \A y \in starts : x <= y
                 m == AttrMatchAt(s, k)
             IN  ScanAttrs(s, m[3], Put(attrs, m[1], m[2]))
parseAttrs(s) == ScanAttrs(s, 1, <<>>)

\* a || b on strings: the empty string is falsy
OrElse(a, b) == IF a # <<>> THEN a ELSE b

\* the currentMeta built from one trimmed #EXTINF line (lines 45-57)
MetaOf(line) ==
    LET metaPart  == Drop(line, IndexOf(line, ":") + 1)
        lastComma == LastIndexOf(metaPart, ",")
        attrsPart == IF lastComma # -1 THEN Take(metaPart, lastComma) ELSE metaPart
        titlePart == IF lastComma # -1 THEN Trim(Drop(metaPart, lastComma + 1)) ELSE <<>>
        attrs     == parseAttrs(attrsPart)
    IN  [title    |-> OrElse(titlePart, OrElse(Get(attrs, K_tvg_name), Unknown)),
         group    |-> OrElse(Get(attrs, K_group_title), Other),
         logo     |-> Get(attrs, K_tvg_logo),
         tvgId    |-> Get(attrs, K_tvg_id),
         chno     |-> Get(attrs, K_tvg_chno),
         rawAttrs |-> attrs]

\* { ...currentMeta, url: line }
WithUrl(meta, url) ==
    [title |-> meta.title, group |-> meta.group, logo |-> meta.logo, tvgId |-> meta.tvgId,
     chno |-> meta.chno, rawAttrs |-> meta.rawAttrs, url |-> url]

\* ScanLines without line 60: the pending metadata survives the URL line
RECURSIVE ScanLinesKeepMeta(_, _, _, _)
ScanLinesKeepMeta(lines, i, currentMeta, chs) ==
    IF i > Len(lines) THEN chs
    ELSE LET line == Trim(lines[i])
         IN  IF line = <<>> THEN ScanLinesKeepMeta(lines, i + 1, currentMeta, chs)
             ELSE IF StartsWith(line, EXTINF)
                  THEN ScanLinesKeepMeta(lines, i + 1, <<MetaOf(line)>>, chs)
             ELSE IF currentMeta # <<>> /\ ~StartsWith(line, <<"#">>)
                  THEN ScanLinesKeepMeta(lines, i + 1, currentMeta,
                                         Append(chs, WithUrl(currentMeta[1], line)))
             ELSE ScanLinesKeepMeta(lines, i + 1, currentMeta, chs)

\* ScanLines in which an #EXTINF line does not overwrite a pending metadata
RECURSIVE ScanLinesKeepFirst(_, _, _, _)
ScanLinesKeepFirst(lines, i, currentMeta, chs) ==
    IF i > Len(lines) THEN chs
    ELSE LET line == Trim(lines[i])
         IN  IF line = <<>> THEN ScanLinesKeepFirst(lines, i + 1, currentMeta, chs)
             ELSE IF StartsWith(line, EXTINF)
                  THEN ScanLinesKeepFirst(lines, i + 1,
                           IF currentMeta # <<>> THEN currentMeta ELSE <<MetaOf(line)>>, chs)
             ELSE IF currentMeta # <<>> /\ ~StartsWith(line, <<"#">>)
                  THEN ScanLinesKeepFirst(lines, i + 1, <<>>,
                                          Append(chs, WithUrl(currentMeta[1], line)))
             ELSE ScanLinesKeepFirst(lines, i + 1, currentMeta, chs)

\* ScanLines in which any other #-line empties the pending metadata
RECURSIVE ScanLinesCommentClears(_, _, _, _)
ScanLinesCommentClears(lines, i, currentMeta, chs) ==
    IF i > Len(lines) THEN chs
    ELSE LET line == Trim(lines[i])
         IN  IF line = <<>> THEN ScanLinesCommentClears(lines, i + 1, currentMeta, chs)
             ELSE IF StartsWith(line, EXTINF)
                  THEN ScanLinesCommentClears(lines, i + 1, <<MetaOf(line)>>, chs)
             ELSE IF currentMeta # <<>> /\ ~StartsWith(line, <<"#">>)
                  THEN ScanLinesCommentClears(lines, i + 1, <<>>,
                                              Append(chs, WithUrl(currentMeta[1], line)))
             ELSE ScanLinesCommentClears(lines, i + 1, <<>>, chs)

\* the loop of lines 41-62; currentMeta is <<>> for null, else <<meta>>
RECURSIVE ScanLines(_, _, _, _)
ScanLines(lines, i, currentMeta, chs) ==
    IF i > Len(lines) THEN chs
    ELSE LET line == Trim(lines[i])
         IN  IF line = <<>> THEN ScanLines(lines, i + 1, currentMeta, chs)
             ELSE IF StartsWith(line, EXTINF)
                  THEN ScanLines(lines, i + 1, <<MetaOf(line)>>, chs)
             ELSE IF currentMeta # <<>> /\ ~StartsWith(line, <<"#">>)
                  THEN ScanLines(lines, i + 1, <<>>, Append(chs, WithUrl(currentMeta[1], line)))
             ELSE ScanLines(lines, i + 1, currentMeta, chs)

parseM3U(t) == ScanLines(SplitLines(t), 1, <<>>, <<>>)


---------------------------------------------------------------------------
(* parseXmltvDate *)

\* A value returned by parseXmltvDate: null, an Invalid Date (a Date object whose
\* time value is NaN), or a Date with time value t (seconds).
NullDate == [kind |-> "null", t |-> 0]
InvalidDate == [kind |-> "invalid", t |-> 0]
DateAt(t) == [kind |-> "date", t |-> t]

DigitVal(c) == CHOOSE n \in 0..9 : <<"0", "1", "2", "3", "4", "5", "6", "7", "8", "9">>[n + 1] = c
RECURSIVE ToNumber(_)
ToNumber(s) == IF s = <<>> THEN 0 ELSE 10 * ToNumber(Take(s, Len(s) - 1)) + DigitVal(s[Len(s)])

AllDigits(s, i, n) == i + n - 1 <= Len(s) /\ \A j \in i..(i + n - 1) : s[j] \in Digits

\* ([+-]\d{4}) at 1-based position i
TzAt(s, i) == i <= Len(s) /\ s[i] \in {"+", "-"} /\ AllDigits(s, i + 1, 4)

\* s.match(/(\d{4})(\d{2})(\d{2})(\d{2})(\d{2})(\d{2})(?:\s?([+-]\d{4}))?/): the leftmost
\* position with 14 digits, then the optional group, \s? tried greedily first.
\* <<>> when there is no match, else <<Y, Mo, D, H, Mi, S, tz>> with tz = <<>> for undefined.
DateMatch(s) ==
    IF ~(\E i \in 1..Len(s) : AllDigits(s, i, 14)) THEN <<>>
    ELSE LET i == CHOOSE k \in 1..Len(s) :
                      AllDigits(s, k, 14) /\ \A j \in 1..(k - 1) : ~AllDigits(s, j, 14)
             p == i + 14
             tz == IF p <= Len(s) /\ s[p] \in WhiteSpace /\ TzAt(s, p + 1)
                   THEN SubSeq(s, p + 1, p + 5)
                   ELSE IF TzAt(s, p) THEN SubSeq(s, p, p + 4) ELSE <<>>
         IN  <<SubSeq(s, i, i + 3), SubSeq(s, i + 4, i + 5), SubSeq(s, i + 6, i + 7),
               SubSeq(s, i + 8, i + 9), SubSeq(s, i + 10, i + 11), SubSeq(s, i + 12, i + 13), tz>>

\* days from 1970-01-01 to the civil date y-m-d (proleptic Gregorian calendar)
DaysFromCivil(y, m, d) ==
    LET yy  == IF m <= 2 THEN y - 1 ELSE y
        era == yy \div 400
        yoe == yy - era * 400
        mp  == (m + 9) % 12
        doy == (153 * mp + 2) \div 5 + d - 1
        doe == yoe * 365 + yoe \div 4 - yoe \div 100 + doy
    IN  era * 146097 + doe - 719468

\* new Date(`${Y}-${Mo}-${D}T${H}:${Mi}:${S}` + offset), offset "Z" or "+HH:MM" / "-HH:MM":
\* an element out of its range gives an Invalid Date (V8 takes a day up to 31 in any
\* month and 24:00:00 as the end of the day); the offset is subtracted.
NewDateIso(Y, Mo, D, H, Mi, S, tz) ==
    LET y == ToNumber(Y)  mo == ToNumber(Mo)  d == ToNumber(D)
        h == ToNumber(H)  mi == ToNumber(Mi)  sec == ToNumber(S)
        oh == IF tz = <<>> THEN 0 ELSE ToNumber(SubSeq(tz, 2, 3))
        om == IF tz = <<>> THEN 0 ELSE ToNumber(SubSeq(tz, 4, 5))
        sign == IF tz # <<>> /\ tz[1] = "-" THEN -1 ELSE 1
        timeOk == \/ h <= 23 /\ mi <= 59 /\ sec <= 59
                  \/ h = 24 /\ mi = 0 /\ sec = 0
    IN  IF mo \in 1..12 /\ d \in 1..31 /\ timeOk /\ oh <= 23 /\ om <= 59
        THEN DateAt(DaysFromCivil(y, mo, d) * 86400 + h * 3600 + mi * 60 + sec
                    - sign * (oh * 3600 + om * 60))
        ELSE InvalidDate

\* an absent attribute (getAttribute gives null) and "" are both falsy: both are <<>>
parseXmltvDate(s) ==
    IF s = <<>> THEN NullDate
    ELSE LET m == DateMatch(s)
         IN  IF m = <<>> THEN NullDate
             ELSE NewDateIso(m[1], m[2], m[3], m[4], m[5], m[6], m[7])


---------------------------------------------------------------------------
(* parseXMLTV *)

\* A guide text is [wellFormed, channels, programmes]: its <channel> elements
\* [id, displayName] and its <programme> elements [channel, start, stop, title, desc,
\* category] in document order, the channels before the programmes (the layout of
\* XMLTV).  An absent attribute or child element is <<>>: the code reads both through
\* `|| ""`, `|| id`, `!s` or `|| default`, which take null and "" alike.

UnknownTitle == <<"(", "o", "k", "ä", "n", "t", ")">>

\* channelIdToName.set(id, name) on an ordered Map, kept as a sequence of [id, name]:
\* a key already present keeps its place and takes the new value
MapSet(m, id, name) ==
    IF \E i \in 1..Len(m) : m[i].id = id
    THEN [i \in 1..Len(m) |-> IF m[i].id = id THEN [id |-> id, name |-> name] ELSE m[i]]
    ELSE Append(m, [id |-> id, name |-> name])

\* lines 78-82
RECURSIVE ScanChannels(_, _)
ScanChannels(els, m) ==
    IF els = <<>> THEN m
    ELSE LET ch == els[1]
             name == OrElse(Trim(ch.displayName), ch.id)
         IN  ScanChannels(Tail(els), MapSet(m, ch.id, name))

\* !start: only null is falsy; an Invalid Date is an object, and truthy
Falsy(date) == date.kind = "null"

\* lines 84-95: progs is a function from the channel ids seen to their lists
RECURSIVE ScanProgrammes(_, _)
ScanProgrammes(els, progs) ==
    IF els = <<>> THEN progs
    ELSE LET p == els[1]
             start == parseXmltvDate(p.start)
             stop == parseXmltvDate(p.stop)
             ep == [start |-> start, stop |-> stop,
                    title |-> OrElse(Trim(p.title), UnknownTitle),
                    desc |-> Trim(p.desc), category |-> Trim(p.category)]
         IN  IF Falsy(start) \/ Falsy(stop) THEN ScanProgrammes(Tail(els), progs)
             ELSE ScanProgrammes(Tail(els),
                      [c \in DOMAIN progs \cup {p.channel} |->
                          IF c = p.channel
                          THEN Append(IF c \in DOMAIN progs THEN progs[c] ELSE <<>>, ep)
                          ELSE progs[c]])

\* (a, b) => a.start - b.start: "lt", "gt" or "eq"; with an Invalid Date the
\* difference is NaN, which Array.prototype.sort takes as +0
Cmp(a, b) ==
    IF a.start.kind # "date" \/ b.start.kind # "date" THEN "eq"
    ELSE IF a.start.t < b.start.t THEN "lt"
    ELSE IF a.start.t > b.start.t THEN "gt" ELSE "eq"

\* ECMA-262 23.1.3.30.2: the comparator is consistent on the list's values
ConsistentComparator(arr) ==
    \A i, j, k \in 1..Len(arr) :
        /\ (Cmp(arr[i], arr[j]) = "eq" /\ Cmp(arr[j], arr[k]) = "eq") => Cmp(arr[i], arr[k]) = "eq"
        /\ (Cmp(arr[i], arr[j]) = "lt" /\ Cmp(arr[j], arr[k]) = "lt") => Cmp(arr[i], arr[k]) = "lt"
        /\ (Cmp(arr[i], arr[j]) = "gt" /\ Cmp(arr[j], arr[k]) = "gt") => Cmp(arr[i], arr[k]) = "gt"

\* x put into an ordered list behind every element that is not greater than it
RECURSIVE InsertSorted(_, _)
InsertSorted(sorted, x) ==
    IF sorted = <<>> THEN <<x>>
    ELSE IF Cmp(sorted[Len(sorted)], x) = "gt"
         THEN Append(InsertSorted(Take(sorted, Len(sorted) - 1), x), sorted[Len(sorted)])
         ELSE Append(sorted, x)

\* the stable sort ECMA-262 requires of a consistent comparator
RECURSIVE StableSort(_)
StableSort(arr) ==
    IF arr = <<>> THEN <<>>
    ELSE InsertSorted(StableSort(Take(arr, Len(arr) - 1)), arr[Len(arr)])

Reorderings(arr) ==
    {[i \in 1..Len(arr) |-> arr[f[i]]] :
        f \in {g \in [1..Len(arr) -> 1..Len(arr)] : \A i, j \in 1..Len(arr) : g[i] = g[j] => i = j}}

\* arr.sort((a, b) => a.start - b.start), line 96: the orders the sort may leave.  With
\* an inconsistent comparator the order is implementation-defined (some permutation).
SortOutcomes(arr) ==
    IF ConsistentComparator(arr) THEN {StableSort(arr)} ELSE Reorderings(arr)

\* the channel and programme elements a DOMParser document of the text holds:
\* parseFromString never throws; of a text that is not well-formed Chromium keeps the
\* elements read before the error and Gecko keeps none
DomViews(doc) ==
    IF doc.wellFormed THEN {[channels |-> doc.channels, programmes |-> doc.programmes]}
    ELSE {[channels |-> Take(doc.channels, kc), programmes |-> Take(doc.programmes, kp)] :
             <<kc, kp>> \in {x \in (0..Len(doc.channels)) \X (0..Len(doc.programmes)) :
                                x[2] > 0 => x[1] = Len(doc.channels)}}

\* the values parseXMLTV may return for a guide text (lines 75-98)
parseXMLTV(doc) ==
    UNION {LET unsorted == ScanProgrammes(dom.programmes, <<>>)
               names == ScanChannels(dom.channels, <<>>)
               lists == UNION {SortOutcomes(unsorted[c]) : c \in DOMAIN unsorted}
           IN  {[isNull |-> FALSE, channelIdToName |-> names, progs |-> f] :
                    f \in {g \in [DOMAIN unsorted -> lists] :
                              \A c \in DOMAIN unsorted : g[c] \in SortOutcomes(unsorted[c])}}
           : dom \in DomViews(doc)}

\* epg = null
NoEpg == [isNull |-> TRUE, channelIdToName |-> <<>>, progs |-> <<>>]

---------------------------------------------------------------------------
(* normalizeName, buildNameIndex, getEpgForChannel, nowNextForChannel *)

\* one character of s.toLowerCase()
ToLower(c) == IF c \in Uppers THEN LowerSeq[CHOOSE i \in 1..26 : UpperSeq[i] = c] ELSE c

\* .replace(/[^a-z0-9]+/g, " "): each maximal run outside [a-z0-9] becomes one space
RECURSIVE ReplaceRuns(_, _)
ReplaceRuns(s, i) ==
    IF i > Len(s) THEN <<>>
    ELSE IF s[i] \in Lowers \cup Digits THEN <<s[i]>> \o ReplaceRuns(s, i + 1)
    ELSE <<" ">> \o ReplaceRuns(s, i + RunLen(s, i, {s[j] : j \in 1..Len(s)} \ (Lowers \cup Digits)))

\* normalizeName without the .trim()
NormalizeNoTrim(s) == ReplaceRuns([i \in 1..Len(s) |-> ToLower(s[i])], 1)

\* undefined and "" are both <<>>
normalizeName(s) == Trim(ReplaceRuns([i \in 1..Len(s) |-> ToLower(s[i])], 1))

\* IndexNames with byName.set(key, [id]): the last id of a key wins
RECURSIVE IndexNamesLastWins(_, _)
IndexNamesLastWins(entries, byName) ==
    IF entries = <<>> THEN byName
    ELSE LET key == normalizeName(entries[1].name)
         IN  IndexNamesLastWins(Tail(entries),
                 [k \in DOMAIN byName \cup {key} |->
                     IF k = key THEN <<entries[1].id>> ELSE byName[k]])

\* lines 102-110: byName as a function from the keys to their id lists
RECURSIVE IndexNames(_, _)
IndexNames(entries, byName) ==
    IF entries = <<>> THEN byName
    ELSE LET key == normalizeName(entries[1].name)
         IN  IndexNames(Tail(entries),
                 [k \in DOMAIN byName \cup {key} |->
                     IF k = key
                     THEN Append(IF k \in DOMAIN byName THEN byName[k] ELSE <<>>, entries[1].id)
                     ELSE byName[k]])
buildNameIndex(channelIdToName) == IndexNames(channelIdToName, <<>>)

\* for (const id of ids) if (progs.has(id)) return ...: <<>> when none has
RECURSIVE FirstWithProgs(_, _)
FirstWithProgs(ids, progs) ==
    IF ids = <<>> THEN <<>>
    ELSE IF ids[1] \in DOMAIN progs THEN <<[id |-> ids[1], progs |-> progs[ids[1]]]>>
    ELSE FirstWithProgs(Tail(ids), progs)

\* ch.tvgId and ch.rawAttrs?.["tvg-name"]: undefined (here <<>>, as falsy as "") on a
\* record without the property, such as a favourite copy
TvgIdOf(ch) == IF "tvgId" \in DOMAIN ch THEN ch.tvgId ELSE <<>>
TvgNameOf(ch) == IF "rawAttrs" \in DOMAIN ch THEN Get(ch.rawAttrs, K_tvg_name) ELSE <<>>

\* ch.title || ch.rawAttrs?.["tvg-name"], line 116
NameKeyOf(ch) == normalizeName(OrElse(ch.title, TvgNameOf(ch)))

\* getEpgForChannel with the name lookup before the tvg-id lookup
GetEpgNameFirst(ch, guide) ==
    IF guide.isNull THEN <<>>
    ELSE LET nameIndex == buildNameIndex(guide.channelIdToName)
             key == NameKeyOf(ch)
             byName == IF key \in DOMAIN nameIndex
                       THEN FirstWithProgs(nameIndex[key], guide.progs) ELSE <<>>
         IN  IF byName # <<>> THEN byName
             ELSE IF TvgIdOf(ch) # <<>> /\ TvgIdOf(ch) \in DOMAIN guide.progs
                  THEN <<[id |-> TvgIdOf(ch), progs |-> guide.progs[TvgIdOf(ch)]]>>
             ELSE <<>>

\* lines 111-122: <<>> for null, else <<[id, progs]>>
getEpgForChannel(ch, guide) ==
    IF guide.isNull THEN <<>>
    ELSE IF TvgIdOf(ch) # <<>> /\ TvgIdOf(ch) \in DOMAIN guide.progs
         THEN <<[id |-> TvgIdOf(ch), progs |-> guide.progs[TvgIdOf(ch)]]>>
    ELSE LET nameIndex == buildNameIndex(guide.channelIdToName)
             key == NameKeyOf(ch)
         IN  IF key \in DOMAIN nameIndex THEN FirstWithProgs(nameIndex[key], guide.progs)
             ELSE <<>>

\* the number of buildNameIndex calls one getEpgForChannel(ch, guide) makes: none when it
\* returns at line 112 or 114, else the one of line 115
IndexBuilds(ch, guide) ==
    IF guide.isNull THEN 0
    ELSE IF TvgIdOf(ch) # <<>> /\ TvgIdOf(ch) \in DOMAIN guide.progs THEN 0
    ELSE 1

\* now <= p.stop in place of now < p.stop
StopGE(p, now) == p.stop.kind = "date" /\ now <= p.stop.t

\* p.start <= now, now < p.stop, p.start > now: false when the Date is invalid
StartLE(p, now) == p.start.kind = "date" /\ p.start.t <= now
StopGT(p, now) == p.stop.kind = "date" /\ now < p.stop.t
StartGT(p, now) == p.start.kind = "date" /\ p.start.t > now

\* the loop of lines 128-132; a programme or null is <<p>> or <<>>
RECURSIVE ScanNowNext(_, _, _)
ScanNowNext(arr, i, now) ==
    IF i > Len(arr) THEN [now |-> <<>>, next |-> <<>>]
    ELSE IF StartLE(arr[i], now) /\ StopGT(arr[i], now)
         THEN [now |-> <<arr[i]>>, next |-> IF i + 1 <= Len(arr) THEN <<arr[i + 1]>> ELSE <<>>]
    ELSE IF StartGT(arr[i], now) THEN [now |-> <<>>, next |-> <<arr[i]>>]
    ELSE ScanNowNext(arr, i + 1, now)

\* lines 123-134
nowNextForChannel(ch, guide, now) ==
    LET hit == getEpgForChannel(ch, guide)
    IN  IF hit = <<>> THEN [now |-> <<>>, next |-> <<>>]
        ELSE ScanNowNext(hit[1].progs, 1, now)

\* Row, lines 246 and 259: one `now` for the row, one nowNextForChannel per item.
\* hit and builds are history: what the getEpgForChannel call inside nowNextForChannel
\* returned, and how many name indexes it built.
RowRender(items, guide, now) ==
    [now |-> now,
     items |-> [i \in 1..Len(items) |->
                   IF ~guide.isNull
                   THEN [hit |-> getEpgForChannel(items[i], guide),
                         builds |-> IndexBuilds(items[i], guide),
                         nn |-> nowNextForChannel(items[i], guide, now)]
                   ELSE [hit |-> <<>>, builds |-> 0, nn |-> [now |-> <<>>, next |-> <<>>]]]]

\* s.includes(q)
Includes(s, q) == \E i \in 0..(Len(s) - Len(q)) : \A j \in 1..Len(q) : s[i + j] = q[j]

\* line 319: channels.filter((c) => c.title.toLowerCase().includes(query.toLowerCase()))
LowerCase(s) == [i \in 1..Len(s) |-> ToLower(s[i])]
Filtered(chs, q) ==
    LET Shown(c) == Includes(LowerCase(c.title), LowerCase(q))
    IN  SelectSeq(chs, Shown)

\* lines 320-322: the group rows, a Map in insertion order of the groups, then sorted
\* by descending size (the sort is stable)
RECURSIVE GroupRows(_, _)
GroupRows(chs, rows) ==
    IF chs = <<>> THEN rows
    ELSE LET g == OrElse(chs[1].group, Other)
             at == {k \in 1..Len(rows) : rows[k].title = g}
         IN  GroupRows(Tail(chs),
                 IF at = {} THEN Append(rows, [title |-> g, items |-> <<chs[1]>>])
                 ELSE [k \in 1..Len(rows) |->
                          IF k \in at THEN [title |-> g, items |-> Append(rows[k].items, chs[1])]
                          ELSE rows[k]])

RECURSIVE InsertBySize(_, _)
InsertBySize(sorted, row) ==
    IF sorted = <<>> THEN <<row>>
    ELSE IF Len(row.items) > Len(sorted[1].items) THEN <<row>> \o sorted
    ELSE <<sorted[1]>> \o InsertBySize(Tail(sorted), row)

RECURSIVE SortBySize(_)
SortBySize(rows) ==
    IF rows = <<>> THEN <<>>
    ELSE InsertBySize(SortBySize(SubSeq(rows, 1, Len(rows) - 1)), rows[Len(rows)])

FavoritesTitle == <<"F", "o", "r", "t", "s", "ä", "t", "t", " ", "&", " ", "f", "a", "v", "o", "r", "i", "t", "e", "r">>

\* renderedRows, lines 318-325
renderedRows(chs, q, favs) ==
    (IF Len(favs) > 0 THEN <<[title |-> FavoritesTitle, items |-> favs]>> ELSE <<>>)
        \o SortBySize(GroupRows(Filtered(chs, q), <<>>))

\* .slice(0, 500), line 339
FavoritesCap == 500

\* { title: ch.title, url: ch.url, logo: ch.logo, group: ch.group }, line 339
FavCopy(ch) == [title |-> ch.title, url |-> ch.url, logo |-> ch.logo, group |-> ch.group]

\* the updater of toggleFavorite, lines 336-340
toggleFavorite(prev, ch) ==
    IF \E k \in 1..Len(prev) : prev[k].url = ch.url
    THEN LET Other_(p) == p.url # ch.url IN SelectSeq(prev, Other_)
    ELSE LET all == <<FavCopy(ch)>> \o prev
         IN  IF Len(all) > FavoritesCap THEN SubSeq(all, 1, FavoritesCap) ELSE all

Max(a, b) == IF a >= b THEN a ELSE b
Min(a, b) == IF a <= b THEN a ELSE b

\* (renderedRows[row]?.items?.length || 1): 1 for a row that does not exist or is empty
ItemsOr1(rows, row) ==
    IF row + 1 \in 1..Len(rows) /\ Len(rows[row + 1].items) # 0 THEN Len(rows[row + 1].items)
    ELSE 1

\* the argument of a normalizeName call: undefined, or a string
NoName == [undef |-> TRUE, s |-> <<>>]

---------------------------------------------------------------------------
(* The inputs: playlist texts *)

LineBlank == <<>>
LineSpaces == <<" ", "\t">>
\* #EXTINF:-1 tvg-id="c" tvg-name="News" group-title="UK",BBC One
LineExtA == <<"#", "E", "X", "T", "I", "N", "F", ":", "-", "1", " ", "t", "v", "g", "-", "i", "d", "=", "\"", "c", "\"", " ", "t", "v", "g", "-", "n", "a", "m", "e", "=", "\"", "N", "e", "w", "s", "\"", " ", "g", "r", "o", "u", "p", "-", "t", "i", "t", "l", "e", "=", "\"", "U", "K", "\"", ",", "B", "B", "C", " ", "O", "n", "e">>
\* an indented line with a title only
LineExtB == <<" ", " ", "#", "E", "X", "T", "I", "N", "F", ":", "0", ",", " ", "b", "b", "c", "-", "O", "N", "E", "!", " ">>
\* the title is the word Unknown itself, beside a tvg-name
LineExtC == <<"#", "E", "X", "T", "I", "N", "F", ":", "-", "1", " ", "t", "v", "g", "-", "i", "d", "=", "\"", "z", "z", "\"", " ", "t", "v", "g", "-", "n", "a", "m", "e", "=", "\"", "B", "B", "C", " ", "O", "n", "e", "\"", ",", "U", "n", "k", "n", "o", "w", "n">>
\* no comma, so no title, and no tvg-name; tvg-id twice
LineExtD == <<"#", "E", "X", "T", "I", "N", "F", ":", "-", "1", " ", "t", "v", "g", "-", "i", "d", " ", "=", " ", "\"", "c", "\"", " ", "t", "v", "g", "-", "i", "d", "=", "\"", "\"", " ", "x">>
LineUrl1 == <<"h", "t", "t", "p", ":", "/", "/", "x", "/", "1">>
LineUrl2 == <<" ", "h", "t", "t", "p", ":", "/", "/", "x", "/", "2", "?", "a", "=", "1", ",", "b", " ", "\t">>
LineComment == <<"#", "E", "X", "T", "V", "L", "C", "O", "P", "T", ":", "x">>

LineSamples == {LineBlank, LineSpaces, LineExtA, LineExtB, LineUrl1, LineUrl2, LineComment}

SeqsUpTo(S, n) == UNION {[1..k -> S] : k \in 0..n}

RECURSIVE Join(_, _)
Join(lines, sep) ==
    IF lines = <<>> THEN <<>>
    ELSE IF Len(lines) = 1 THEN lines[1]
    ELSE lines[1] \o sep \o Join(Tail(lines), sep)

\* every text of at most MaxLines sample lines, with either line ending
\* the playlists of the application runs
AppPlaylists ==
    {Join(<<LineExtA, LineUrl1, LineExtB, LineUrl2>>, <<"\n">>),
     Join(<<LineExtC, LineUrl1, LineExtD, LineBlank, LineUrl2>>, <<"\r", "\n">>)}

\* every text of at most MaxLines sample lines, with either line ending, and the
\* playlists of the application runs
PlaylistTexts ==
    {Join(ls, sep) : ls \in SeqsUpTo(LineSamples, MaxLines), sep \in {<<"\n">>, <<"\r", "\n">>}}
        \cup AppPlaylists

---------------------------------------------------------------------------
(* The inputs: guide texts *)

S18 == <<"2", "0", "2", "5", "0", "1", "0", "1", "1", "8", "0", "0", "0", "0", " ", "+", "0", "0", "0", "0">>
S19 == <<"2", "0", "2", "5", "0", "1", "0", "1", "1", "9", "0", "0", "0", "0", " ", "+", "0", "0", "0", "0">>
\* 19:00 UTC again, written with an offset
S19b == <<"2", "0", "2", "5", "0", "1", "0", "1", "2", "1", "0", "0", "0", "0", " ", "+", "0", "2", "0", "0">>
S20 == <<"2", "0", "2", "5", "0", "1", "0", "1", "2", "0", "0", "0", "0", "0">>
\* month 13
SBadMonth == <<"2", "0", "2", "5", "1", "3", "0", "1", "1", "8", "0", "0", "0", "0", " ", "+", "0", "0", "0", "0">>
SIso == <<"2", "0", "2", "5", "-", "0", "1", "-", "0", "1", "T", "1", "8", ":", "0", "0", ":", "0", "0", "Z">>

Id_a == <<"a">>
Id_b == <<"b">>
Id_c == <<"c">>

ChannelEl(id, displayName) == [id |-> id, displayName |-> displayName]
ProgrammeEl(channel, start, stop, title) ==
    [channel |-> channel, start |-> start, stop |-> stop, title |-> title,
     desc |-> <<>>, category |-> <<>>]
GuideText(wellFormed, chs, progs) ==
    [wellFormed |-> wellFormed, channels |-> chs, programmes |-> progs]

E1 == ProgrammeEl(Id_c, S18, S19, <<"p", "1">>)
E2 == ProgrammeEl(Id_c, S19, S20, <<"p", "2">>)
E3 == ProgrammeEl(Id_c, S19b, S20, <<" ", "p", "3">>)
\* stop before start
E4 == ProgrammeEl(Id_c, S20, S19, <<"p", "4">>)
\* a start that is no real instant
E5 == ProgrammeEl(Id_c, SBadMonth, S20, <<"p", "5">>)
\* no <title>
E6 == ProgrammeEl(Id_a, S18, S20, <<>>)
E7 == ProgrammeEl(Id_b, S18, S19, <<"p", "7">>)
\* an ISO-8601 start and no stop attribute
E8 == ProgrammeEl(Id_c, SIso, <<>>, <<"p", "8">>)

ProgElems == {E1, E2, E3, E4, E5}

\* two ids whose names share the key "bbc one"
Decl0 == <<ChannelEl(Id_a, <<"N", "e", "w", "s">>), ChannelEl(Id_b, <<"b", "b", "c", " ", "o", "n", "e">>),
           ChannelEl(Id_c, <<" ", "B", "B", "C", " ", "O", "n", "e", " ">>)>>
\* id c declared twice
Decl1 == <<ChannelEl(Id_c, <<"B", "B", "C", " ", "O", "n", "e">>), ChannelEl(Id_b, <<"b", "b", "c", " ", "o", "n", "e">>),
           ChannelEl(Id_c, <<"U", "n", "k", "n", "o", "w", "n">>)>>
\* no <display-name>, and no id attribute
Decl2 == <<ChannelEl(Id_b, <<>>), ChannelEl(<<>>, <<>>)>>

EmptyGuideText == GuideText(TRUE, <<>>, <<>>)

\* guides with other declarations, with programmes of other channels, and with
\* programmes that lack a timestamp
CuratedGuides ==
    {GuideText(TRUE, Decl0, <<E6, E7, E2>>),
     GuideText(TRUE, Decl1, <<E7, E1>>),
     GuideText(TRUE, Decl1, <<E2>>),
     GuideText(TRUE, Decl2, <<E7, E8>>),
     GuideText(TRUE, <<>>, <<E2>>),
     GuideText(TRUE, Decl0, <<E8, E1, E8>>)}

\* every well-formed guide of at most MaxProgs sample programmes under Decl0, and
\* the curated ones
GuideTexts ==
    {GuideText(TRUE, Decl0, ps) : ps \in SeqsUpTo(ProgElems, MaxProgs)} \cup CuratedGuides

\* the guides of the application runs, two of them not well-formed
AppGuides ==
    {GuideText(TRUE, Decl0, <<E6, E7, E2>>),
     GuideText(TRUE, Decl1, <<E7, E1>>),
     GuideText(FALSE, <<ChannelEl(Id_c, <<>>)>>, <<E3>>),
     GuideText(FALSE, <<>>, <<>>)}

\* the instants at which the row is rendered: 17:00 to 20:00 UTC of 2025-01-01
Hour(h) == DaysFromCivil(2025, 1, 1) * 86400 + h * 3600
Nows == {Hour(17), Hour(18), Hour(18) + 1800, Hour(19), Hour(20)}

---------------------------------------------------------------------------
(* The inputs: timestamp attribute values *)

DatePrefixes == {<<>>, <<"x">>, <<"9">>}
DateBodies == {<<"2", "0", "2", "5", "0", "6", "1", "5", "1", "2", "0", "0", "0", "0">>, <<"2", "0", "2", "5", "1", "3", "0", "1", "0", "0", "0", "0", "0", "0">>,
               <<"2", "0", "2", "5", "-", "0", "6", "-", "1", "5", "T", "1", "2", ":", "0", "0", ":", "0", "0">>, <<"2", "0", "2", "5", "0", "6", "1", "5", "1", "2">>}
DateSeparators == {<<>>, <<" ">>, <<" ", " ">>}
DateOffsets == {<<>>, <<"+", "0", "2", "0", "0">>, <<"-", "0", "1", "3", "0">>, <<"+", "0", "2", ":", "0", "0">>, <<"Z">>}
DateSuffixes == {<<>>, <<"7">>}

DateStrings ==
    {<<>>} \cup {a \o b \o c \o d \o e : a \in DatePrefixes, b \in DateBodies,
                    c \in DateSeparators, d \in DateOffsets, e \in DateSuffixes}

---------------------------------------------------------------------------
(* The inputs: display names *)

NameChars == {"A", "b", "7", "-", " ", "_"}
ESPN_HD == <<"E", "S", "P", "N", " ", "H", "D", "!", "!">>
Espn_hd == <<"e", "s", "p", "n", "-", "h", "d">>
NameArgs ==
    {NoName} \cup {[undef |-> FALSE, s |-> n] : n \in SeqsUpTo(NameChars, MaxNameLen) \cup {ESPN_HD, Espn_hd}}

---------------------------------------------------------------------------
(* The application: IPTVNetflixApp *)

\* loadFromFile, line 343; the state change makes a rendering due
LoadFromFile(t) ==
    /\ text' = t
    /\ channels' = parseM3U(t)
    /\ playlistMeta' = "file"
    /\ rendered' = <<>>
    /\ effectDue' = TRUE
    /\ UNCHANGED <<guideText, epg, lastGood, epgMeta, epgErr, dateIn, dateOut, uiVars, nameVars>>

\* loadFromUrl, line 344: a response that is not ok throws before any state is set
LoadFromUrl(t, ok) ==
    IF ok
    THEN /\ text' = t
         /\ channels' = parseM3U(t)
         /\ playlistMeta' = "url"
         /\ rendered' = <<>>
         /\ effectDue' = TRUE
         /\ UNCHANGED <<guideText, epg, lastGood, epgMeta, epgErr, dateIn, dateOut, uiVars, nameVars>>
    ELSE UNCHANGED vars

\* loadEpgFile, line 345 (no caller of it catches anything)
LoadEpgFile(doc) ==
    /\ guideText' = doc
    /\ \E data \in parseXMLTV(doc) :
          /\ epg' = data
          /\ lastGood' = IF doc.wellFormed THEN data ELSE lastGood
    /\ epgMeta' = "file"
    /\ rendered' = <<>>
    /\ UNCHANGED <<text, playlistMeta, channels, epgErr, dateIn, dateOut, uiVars, effectDue,
                   nameVars>>

\* loadEpgUrl, line 346, called by HeroLoadSources.loadEpg, line 422, which clears
\* epgErr and sets it when loadEpgUrl throws
LoadEpgUrl(doc, ok) ==
    IF ok
    THEN /\ guideText' = doc
         /\ \E data \in parseXMLTV(doc) :
               /\ epg' = data
               /\ lastGood' = IF doc.wellFormed THEN data ELSE lastGood
         /\ epgMeta' = "url"
         /\ epgErr' = FALSE
         /\ rendered' = <<>>
         /\ UNCHANGED <<text, playlistMeta, channels, dateIn, dateOut, uiVars, effectDue,
                        nameVars>>
    ELSE /\ epgErr' = TRUE
         /\ UNCHANGED <<text, playlistMeta, guideText, channels, epg, lastGood, epgMeta,
                        rendered, dateIn, dateOut, uiVars, effectDue, nameVars>>

\* the rendering of the channel row at instant now: the one that is due, or a later
\* one (any state change of the App renders again)
Render(now) ==
    /\ IF rendered = <<>> THEN TRUE ELSE now > rendered[1].now
    /\ rendered' = <<[now |-> now,
                      items |-> RowRender(Filtered(channels, query), epg, now).items,
                      favItems |-> RowRender(favorites, epg, now).items]>>
    /\ UNCHANGED <<text, playlistMeta, guideText, channels, epg, lastGood, epgMeta, epgErr,
                   dateIn, dateOut, uiVars, effectDue, nameVars>>

\* one call of parseXmltvDate
ParseDate ==
    /\ dateOut = <<>>
    /\ dateOut' = <<parseXmltvDate(dateIn)>>
    /\ UNCHANGED <<text, playlistMeta, guideText, channels, epg, lastGood, epgMeta, epgErr,
                   rendered, dateIn, uiVars, effectDue, nameVars>>

\* the rows the App shows
Rows == renderedRows(channels, query, favorites)
RowCards == UNION {{Rows[r].items[c] : c \in 1..Len(Rows[r].items)} : r \in 1..Len(Rows)}

\* what a UI state change leaves alone
UNCHANGED_loads ==
    UNCHANGED <<text, playlistMeta, guideText, channels, epg, lastGood, epgMeta, epgErr,
                dateIn, dateOut, nameVars>>

\* the star button of a card, line 273: toggleFavorite(ch)
ToggleFavorite(ch) ==
    /\ favorites' = toggleFavorite(favorites, ch)
    /\ rendered' = <<>>
    /\ effectDue' = TRUE
    /\ UNCHANGED <<query, selected>>
    /\ UNCHANGED_loads

\* the search box, line 382: setQuery
SetQuery(q) ==
    /\ query' = q
    /\ rendered' = <<>>
    /\ effectDue' = TRUE
    /\ UNCHANGED <<favorites, selected>>
    /\ UNCHANGED_loads

\* what goes with a setSelected: the effect of lines 328-333 has `selected` as a
\* dependency
SelectedSet ==
    /\ rendered' = <<>>
    /\ effectDue' = TRUE
    /\ UNCHANGED <<favorites, query>>
    /\ UNCHANGED_loads

\* the gamepad moves, lines 358-361 (at most one per frame: press() sets lastMove)
MoveUp ==
    /\ selected' = [row |-> Max(0, selected.row - 1), col |-> 0]
    /\ SelectedSet
MoveDown ==
    /\ selected' = [row |-> Min(Len(Rows) - 1, selected.row + 1), col |-> 0]
    /\ SelectedSet
MoveLeft ==
    /\ selected' = [row |-> selected.row, col |-> Max(0, selected.col - 1)]
    /\ SelectedSet
MoveRight ==
    /\ selected' = [row |-> selected.row,
                    col |-> Min(ItemsOr1(Rows, selected.row) - 1, selected.col + 1)]
    /\ SelectedSet

\* onMouseEnter of the card at row, col (0-based), lines 261 and 400
MouseSelect(row, col) ==
    /\ row + 1 \in 1..Len(Rows)
    /\ col + 1 \in 1..Len(Rows[row + 1].items)
    /\ selected' = [row |-> row, col |-> col]
    /\ SelectedSet

\* the effect "keep selected in bounds", lines 328-333; a setSelected makes it due again
ClampSelected ==
    /\ effectDue
    /\ IF Len(Rows) = 0
       THEN effectDue' = FALSE /\ UNCHANGED selected
       ELSE LET r == Max(0, Min(selected.row, Len(Rows) - 1))
                c == Max(0, Min(selected.col, ItemsOr1(Rows, r) - 1))
            IN  IF r # selected.row \/ c # selected.col
                THEN selected' = [row |-> r, col |-> c] /\ effectDue' = TRUE
                ELSE effectDue' = FALSE /\ UNCHANGED selected
    /\ UNCHANGED <<favorites, query, rendered>>
    /\ UNCHANGED_loads

\* (s || ""), line 100
NameArg(v) == IF v.undef THEN <<>> ELSE v.s

\* one call of normalizeName
NormalizeCall ==
    /\ nameOut = <<>>
    /\ nameOut' = <<normalizeName(NameArg(nameIn))>>
    /\ UNCHANGED <<text, playlistMeta, guideText, channels, epg, lastGood, epgMeta, epgErr,
                   rendered, dateIn, dateOut, uiVars, effectDue, nameIn>>

\* the state after construction (lines 296-306), the first rendering due
Constructed ==
    /\ playlistMeta = ""
    /\ channels = <<>>
    /\ epg = NoEpg
    /\ lastGood = NoEpg
    /\ epgMeta = ""
    /\ epgErr = FALSE
    /\ rendered = <<>>
    /\ dateOut = <<>>
    /\ favorites = <<>>
    /\ query = <<>>
    /\ selected = [row |-> 0, col |-> 0]
    /\ effectDue = TRUE
    /\ nameOut = <<>>

\* The application, loading any of its playlists and guides in any order
Init == Constructed /\ text = <<>> /\ guideText = EmptyGuideText /\ dateIn = <<>> /\ nameIn = NoName
Next ==
    \/ \E t \in AppPlaylists : LoadFromFile(t)
    \/ \E t \in AppPlaylists, ok \in BOOLEAN : LoadFromUrl(t, ok)
    \/ \E doc \in AppGuides : LoadEpgFile(doc)
    \/ \E doc \in AppGuides, ok \in BOOLEAN : LoadEpgUrl(doc, ok)
    \/ \E now \in Nows : Render(now)
Spec == Init /\ [][Next]_vars

\* The playlist parser on every playlist text
InitM3U ==
    Constructed /\ text \in PlaylistTexts /\ guideText = EmptyGuideText /\ dateIn = <<>> /\ nameIn = NoName
NextM3U ==
    \/ LoadFromFile(text)
    \/ \E ok \in BOOLEAN : LoadFromUrl(text, ok)
SpecM3U == InitM3U /\ [][NextM3U]_vars

\* The guide parser and the resolution on every guide text, with one playlist
InitGuide ==
    Constructed /\ text \in AppPlaylists /\ guideText \in GuideTexts /\ dateIn = <<>> /\ nameIn = NoName
NextGuide ==
    \/ LoadFromFile(text)
    \/ LoadEpgFile(guideText)
    \/ \E now \in Nows : Render(now)
SpecGuide == InitGuide /\ [][NextGuide]_vars

\* The timestamp parser on every sample attribute value
InitDate ==
    Constructed /\ text = <<>> /\ guideText = EmptyGuideText /\ dateIn \in DateStrings /\ nameIn = NoName
NextDate == ParseDate
SpecDate == InitDate /\ [][NextDate]_vars

\* The favourites: one playlist, one guide, the star buttons and the renderings
InitFav ==
    Constructed /\ text \in AppPlaylists /\ guideText \in AppGuides /\ dateIn = <<>> /\ nameIn = NoName
NextFav ==
    \/ LoadFromFile(text)
    \/ LoadEpgFile(guideText)
    \/ \E ch \in RowCards : ToggleFavorite(ch)
    \/ \E now \in Nows : Render(now)
SpecFav == InitFav /\ [][NextFav]_vars

\* The selection: one playlist, the search box, the star buttons, the gamepad, the mouse
Queries == {<<>>, <<"b", "b", "c">>, <<"U", "N">>, <<"q">>}
InitNav ==
    Constructed /\ text \in AppPlaylists /\ guideText = EmptyGuideText /\ dateIn = <<>> /\ nameIn = NoName
NextNav ==
    \/ LoadFromFile(text)
    \/ \E q \in Queries : SetQuery(q)
    \/ \E ch \in RowCards : ToggleFavorite(ch)
    \/ MoveUp
    \/ MoveDown
    \/ MoveLeft
    \/ MoveRight
    \/ \E row \in 0..2, col \in 0..1 : MouseSelect(row, col)
    \/ ClampSelected
SpecNav == InitNav /\ [][NextNav]_vars

\* normalizeName on every sample argument
InitName ==
    Constructed /\ text = <<>> /\ guideText = EmptyGuideText /\ dateIn = <<>> /\ nameIn \in NameArgs
NextName == NormalizeCall
SpecName == InitName /\ [][NextName]_vars


---------------------------------------------------------------------------
(* Properties of the playlist parser *)

TextLines == SplitLines(text)
IsBlankLine(l) == Trim(l) = <<>>
IsExtinfLine(l) == StartsWith(Trim(l), EXTINF)
IsUrlLine(l) == ~IsBlankLine(l) /\ Trim(l)[1] # "#"
OnlyBasicLines == \A i \in 1..Len(TextLines) :
    IsBlankLine(TextLines[i]) \/ IsExtinfLine(TextLines[i]) \/ IsUrlLine(TextLines[i])

\* the index of the first non-blank line after line i, 0 when there is none
NextNonBlank(i) ==
    LET later == {j \in (i + 1)..Len(TextLines) : ~IsBlankLine(TextLines[j])}
    IN  IF later = {} THEN 0 ELSE CHOOSE j \in later : \A k \in later : j <= k

\* the #EXTINF lines whose next non-blank line is a URL line
PairStarts ==
    {i \in 1..Len(TextLines) :
        /\ IsExtinfLine(TextLines[i])
        /\ NextNonBlank(i) # 0
        /\ IsUrlLine(TextLines[NextNonBlank(i)])}
NthPairStart(k) == CHOOSE i \in PairStarts : Cardinality({j \in PairStarts : j < i}) = k - 1

\* C1: of a loaded playlist text made only of #EXTINF lines, URL lines and blank
\* lines, the channel list holds exactly one record per #EXTINF line whose next
\* non-blank line is a URL line, in source order, with that line's metadata and
\* with url the trimmed URL line; nothing else yields a record.
C1_OneRecordPerPair ==
    (playlistMeta # "" /\ OnlyBasicLines) =>
        /\ Len(channels) = Cardinality(PairStarts)
        /\ \A k \in 1..Len(channels) :
              channels[k] = WithUrl(MetaOf(Trim(TextLines[NthPairStart(k)])),
                                    Trim(TextLines[NextNonBlank(NthPairStart(k))]))

\* a loaded text with a pair, and with a URL line or an #EXTINF line outside any pair
C1_Witness ==
    /\ playlistMeta # "" /\ OnlyBasicLines
    /\ Len(channels) >= 1
    /\ \E i \in 1..Len(TextLines) :
          \/ IsExtinfLine(TextLines[i]) /\ i \notin PairStarts
          \/ IsUrlLine(TextLines[i]) /\ \A p \in PairStarts : NextNonBlank(p) # i

IsCommentLine(l) == ~IsBlankLine(l) /\ Trim(l)[1] = "#" /\ ~IsExtinfLine(l)

\* the index of the last #EXTINF or URL line before line u, 0 when there is none
PrevSignificant(u) ==
    LET before == {j \in 1..(u - 1) : IsExtinfLine(TextLines[j]) \/ IsUrlLine(TextLines[j])}
    IN  IF before = {} THEN 0 ELSE CHOOSE j \in before : \A k \in before : k <= j

\* the URL lines that the last #EXTINF or URL line before them is an #EXTINF line
Producers ==
    {u \in 1..Len(TextLines) :
        /\ IsUrlLine(TextLines[u])
        /\ PrevSignificant(u) # 0
        /\ IsExtinfLine(TextLines[PrevSignificant(u)])}
NthProducer(k) == CHOOSE u \in Producers : Cardinality({j \in Producers : j < u}) = k - 1
RankOf(u) == 1 + Cardinality({j \in Producers : j < u})
CommentBefore(u) ==
    \E j \in (PrevSignificant(u) + 1)..(u - 1) : IsCommentLine(TextLines[j])

\* C14: there is one pending-metadata slot: the records of a loaded text are those of
\* the URL lines directly preceded (blank and other lines aside) by an #EXTINF line, each
\* with the metadata of that nearest #EXTINF line only, so that of two #EXTINF lines in a
\* row the first yields nothing, a last #EXTINF line without URL line yields nothing, and
\* no #EXTINF line yields two records.
C14_SinglePendingSlot ==
    playlistMeta # "" =>
        /\ Len(channels) = Cardinality(Producers)
        /\ \A k \in 1..Len(channels) :
              LET e == MetaOf(Trim(TextLines[PrevSignificant(NthProducer(k))]))
              IN  /\ channels[k].title = e.title
                  /\ channels[k].rawAttrs = e.rawAttrs
        /\ Len(channels) <=
              Cardinality({i \in 1..Len(TextLines) : IsExtinfLine(TextLines[i])})

\* a loaded text with two different #EXTINF lines in a row and then a URL line, which
\* gave one record, with the second line's title
C14_Witness ==
    /\ playlistMeta # "" /\ Len(channels) = 1
    /\ \E u \in Producers :
          LET e2 == PrevSignificant(u)
              e1 == PrevSignificant(e2)
          IN  /\ e1 # 0 /\ IsExtinfLine(TextLines[e1])
              /\ MetaOf(Trim(TextLines[e1])).title # MetaOf(Trim(TextLines[e2])).title
              /\ channels[1].title = MetaOf(Trim(TextLines[e2])).title

\* C15 as stated: a #-line that is no #EXTINF line between an #EXTINF line and the URL
\* line after it invalidates the pending metadata: that URL line gives no record.
C15_CommentInvalidates ==
    playlistMeta # "" =>
        Len(channels) = Cardinality({u \in Producers : ~CommentBefore(u)})

\* C15 as amended: such a line is skipped and the pending metadata stays: the URL line
\* gives one record, with that metadata and its own trimmed text as url.
C15_CommentSkipped ==
    playlistMeta # "" =>
        \A u \in Producers :
            CommentBefore(u) =>
                /\ RankOf(u) <= Len(channels)
                /\ channels[RankOf(u)]
                     = WithUrl(MetaOf(Trim(TextLines[PrevSignificant(u)])), Trim(TextLines[u]))

\* a loaded text with an #EXTINF line, a comment line and a URL line, which gave a record
C15_Witness ==
    /\ playlistMeta # ""
    /\ \E u \in Producers : CommentBefore(u) /\ RankOf(u) <= Len(channels)

\* the text after the last comma of a trimmed #EXTINF line, trimmed; "" without comma
TitleText(l) == IF LastIndexOf(l, ",") = -1 THEN <<>> ELSE Trim(Drop(l, LastIndexOf(l, ",") + 1))

\* the part of a trimmed #EXTINF line before its last comma
AttrText(l) == IF LastIndexOf(l, ",") = -1 THEN l ELSE Take(l, LastIndexOf(l, ","))

\* the value written key="value" (spaces allowed around =) at position i of a, as
\* <<value>>; <<>> when there is no such attribute at i
ValueAt(a, i, key) ==
    LET n == Len(key)
    IN  IF ~(/\ i + n - 1 <= Len(a) /\ SubSeq(a, i, i + n - 1) = key
             /\ i = 1 \/ a[i - 1] \notin WordChars \cup {"-"})
        THEN <<>>
        ELSE LET rest == Drop(a, i + n - 1)
                 afterKey == Drop(rest, RunLen(rest, 1, WhiteSpace))
             IN  IF ~(afterKey # <<>> /\ afterKey[1] = "=") THEN <<>>
                 ELSE LET v == Drop(Tail(afterKey), RunLen(Tail(afterKey), 1, WhiteSpace))
                      IN  IF ~(v # <<>> /\ v[1] = "\"" /\ IndexOf(Tail(v), "\"") # -1) THEN <<>>
                          ELSE <<Take(Tail(v), IndexOf(Tail(v), "\""))>>

\* the value of the last key="value" of a trimmed #EXTINF line, "" when there is none
LastValue(l, key) ==
    LET a == AttrText(l)
        at == {i \in 1..Len(a) : ValueAt(a, i, key) # <<>>}
    IN  IF at = {} THEN <<>>
        ELSE ValueAt(a, CHOOSE i \in at : \A j \in at : j <= i, key)[1]

---------------------------------------------------------------------------
(* Properties of the guide loads *)

\* C2: the held guide is the parse of the most recent well-formed guide text loaded
\* (none before the first): a load of a text that is not well-formed never replaces it.
C2_MalformedLoadKeepsGuide == epg = lastGood

---------------------------------------------------------------------------
(* Properties of the timestamp parser *)

\* exactly 14 digits, then nothing, or whitespace (any amount) and a sign and 4 digits
StrictShape(s) ==
    /\ AllDigits(s, 1, 14)
    /\ \/ Len(s) = 14
       \/ \E k \in 15..Len(s) :
             /\ \A j \in 15..(k - 1) : s[j] \in WhiteSpace
             /\ TzAt(s, k)
             /\ Len(s) = k + 4

\* C3: parseXmltvDate returns null for every string that is not of the strict shape.
C3_RejectsOtherShapes ==
    (dateOut # <<>> /\ ~StrictShape(dateIn)) => dateOut[1] = NullDate

\* the 14 digits of a string of the strict shape name a real wall-clock time
RealWallClock(s) ==
    /\ ToNumber(SubSeq(s, 5, 6)) \in 1..12
    /\ ToNumber(SubSeq(s, 7, 8)) \in 1..28
    /\ ToNumber(SubSeq(s, 9, 10)) \in 0..23
    /\ ToNumber(SubSeq(s, 11, 12)) \in 0..59
    /\ ToNumber(SubSeq(s, 13, 14)) \in 0..59

\* the wall-clock time of the 14 digits taken as UTC, in seconds
WallClock(s) ==
    DaysFromCivil(ToNumber(SubSeq(s, 1, 4)), ToNumber(SubSeq(s, 5, 6)), ToNumber(SubSeq(s, 7, 8)))
        * 86400
    + ToNumber(SubSeq(s, 9, 10)) * 3600 + ToNumber(SubSeq(s, 11, 12)) * 60
    + ToNumber(SubSeq(s, 13, 14))

\* the signed offset a string of the strict shape ends with, in seconds; 0 when absent
OffsetOf(s) ==
    IF Len(s) = 14 THEN 0
    ELSE LET hhmm == SubSeq(s, Len(s) - 3, Len(s))
             secs == ToNumber(SubSeq(hhmm, 1, 2)) * 3600 + ToNumber(SubSeq(hhmm, 3, 4)) * 60
         IN  IF s[Len(s) - 4] = "-" THEN 0 - secs ELSE secs

\* C13: of a well-formed timestamp (14 digits of a real wall-clock time, then nothing,
\* or any amount of whitespace and a signed offset of 4 digits) parseXmltvDate returns
\* the instant of the wall-clock time minus the offset, the wall-clock time itself when
\* there is no offset; "20250615120000 +0200" is 2025-06-15T10:00:00Z.
C13_OffsetHonoured ==
    (dateOut # <<>> /\ StrictShape(dateIn) /\ RealWallClock(dateIn)) =>
        /\ dateOut[1] = DateAt(WallClock(dateIn) - OffsetOf(dateIn))
        /\ dateIn = <<"2", "0", "2", "5", "0", "6", "1", "5", "1", "2", "0", "0", "0", "0",
                      " ", "+", "0", "2", "0", "0">> => dateOut[1] = DateAt(1749981600)

---------------------------------------------------------------------------
(* Properties of the guide index *)

IsInstant(d) == d.kind = "date"

\* C4: every programme entry of the held guide has a start and a stop that are real
\* instants, with start < stop.
C4_EntriesAreIntervals ==
    \A c \in DOMAIN epg.progs : \A i \in 1..Len(epg.progs[c]) :
        LET p == epg.progs[c][i]
        IN  IsInstant(p.start) /\ IsInstant(p.stop) /\ p.start.t < p.stop.t

\* the entries of list whose titles lie in set, as their titles
RECURSIVE TitlesIn(_, _)
TitlesIn(list, set) ==
    IF list = <<>> THEN <<>>
    ELSE IF list[1].title \in set THEN <<list[1].title>> \o TitlesIn(Tail(list), set)
    ELSE TitlesIn(Tail(list), set)

\* the programme elements of channel c in the loaded guide text, in document order,
\* with the titles their entries take
RECURSIVE SourceEntries(_, _)
SourceEntries(els, c) ==
    IF els = <<>> THEN <<>>
    ELSE IF els[1].channel = c
         THEN <<[title |-> OrElse(Trim(els[1].title), UnknownTitle)]>> \o SourceEntries(Tail(els), c)
    ELSE SourceEntries(Tail(els), c)

\* among the entries whose start is a real instant, ascending by start
AscendingByStart(list) ==
    \A i, j \in 1..Len(list) :
        (i < j /\ IsInstant(list[i].start) /\ IsInstant(list[j].start))
            => list[i].start.t <= list[j].start.t

\* entries of different titles and one start stand as their elements stand in the text
TiesInSourceOrder(list, c) ==
    \A i, j \in 1..Len(list) :
        (/\ i < j
         /\ IsInstant(list[i].start) /\ list[i].start = list[j].start
         /\ list[i].title # list[j].title)
            => TitlesIn(list, {list[i].title, list[j].title})
                 = TitlesIn(SourceEntries(guideText.programmes, c), {list[i].title, list[j].title})

\* C5: every channel's programme list of the guide parsed from the loaded text is
\* ascending by start, entries of equal start in the order of the text.
C5_ListsSortedStable ==
    (~epg.isNull) =>
        \A c \in DOMAIN epg.progs :
            AscendingByStart(epg.progs[c]) /\ TiesInSourceOrder(epg.progs[c], c)

---------------------------------------------------------------------------
(* Properties of the channel resolution and of the now/next lookup *)

Drawn == rendered # <<>>
Items == rendered[1].items
HasData(id) == id \in DOMAIN epg.progs /\ epg.progs[id] # <<>>
IdMatches(ch) == ch.tvgId # <<>> /\ ch.tvgId \in DOMAIN epg.progs

\* the ids of the held guide whose display name normalises to key, in guide order
RECURSIVE IdsNamed(_, _)
IdsNamed(entries, key) ==
    IF entries = <<>> THEN <<>>
    ELSE IF normalizeName(entries[1].name) = key
         THEN <<entries[1].id>> \o IdsNamed(Tail(entries), key)
    ELSE IdsNamed(Tail(entries), key)

\* the first id of ids with programme data, as a resolution result
FirstHit(ids) ==
    LET with == {k \in 1..Len(ids) : HasData(ids[k])}
    IN  IF with = {} THEN <<>>
        ELSE LET k == CHOOSE k \in with : \A j \in with : k <= j
             IN  <<[id |-> ids[k], progs |-> epg.progs[ids[k]]]>>

NameHit(name) == FirstHit(IdsNamed(epg.channelIdToName, normalizeName(name)))

\* C6: a channel whose tvgId is non-empty and a key of the programme map is resolved
\* to exactly that id's list, whatever the name index holds; a channel resolved to
\* another id has an empty tvgId or one without a list; with no guide, or with neither
\* the id nor a name matching, the result is {none, none}.
C6_IdBeforeName ==
    Drawn => \A i \in 1..Len(Items) :
        LET ch == channels[i]
            r == Items[i]
        IN  /\ (~epg.isNull /\ IdMatches(ch))
                  => r.hit = <<[id |-> ch.tvgId, progs |-> epg.progs[ch.tvgId]]>>
            /\ (r.hit # <<>> /\ r.hit[1].id # ch.tvgId) => ~IdMatches(ch)
            /\ (\/ epg.isNull
                \/ /\ ~IdMatches(ch)
                   /\ NameHit(ch.title) = <<>>
                   /\ NameHit(Get(ch.rawAttrs, K_tvg_name)) = <<>>)
                  => r.hit = <<>> /\ r.nn = [now |-> <<>>, next |-> <<>>]

\* a drawn channel resolved by its tvgId although its name leads to another id with data
C6_Witness ==
    /\ Drawn /\ ~epg.isNull
    /\ \E i \in 1..Len(Items) :
          /\ IdMatches(channels[i])
          /\ Items[i].hit # <<>> /\ Items[i].hit[1].id = channels[i].tvgId
          /\ NameHit(channels[i].title) # <<>>
          /\ NameHit(channels[i].title)[1].id # channels[i].tvgId

\* C7: the key of the name lookup is the normalised title, and the normalised tvg-name
\* attribute when the title is the default "Unknown".
C7_UnknownFallsBackToTvgName ==
    (Drawn /\ ~epg.isNull) => \A i \in 1..Len(Items) :
        LET ch == channels[i]
        IN  ~IdMatches(ch) =>
               Items[i].hit = NameHit(IF ch.title = Unknown THEN Get(ch.rawAttrs, K_tvg_name)
                                      ELSE ch.title)

\* the ids of the loaded guide text in the order of their first declaration
RECURSIVE DeclaredIds(_, _)
DeclaredIds(els, seen) ==
    IF els = <<>> THEN <<>>
    ELSE IF els[1].id \in seen THEN DeclaredIds(Tail(els), seen)
    ELSE <<els[1].id>> \o DeclaredIds(Tail(els), seen \cup {els[1].id})

\* the name the last declaration of id gives it
DeclaredName(id) ==
    LET at == {k \in 1..Len(guideText.channels) : guideText.channels[k].id = id}
        last == CHOOSE k \in at : \A j \in at : j <= k
    IN  OrElse(Trim(guideText.channels[last].displayName), id)

RECURSIVE IdsWithKey(_, _)
IdsWithKey(ids, key) ==
    IF ids = <<>> THEN <<>>
    ELSE IF normalizeName(DeclaredName(ids[1])) = key
         THEN <<ids[1]>> \o IdsWithKey(Tail(ids), key)
    ELSE IdsWithKey(Tail(ids), key)

\* C8: the name index of the guide parsed from the loaded text holds, under each key,
\* every id whose name normalises to that key, in the order the ids are first declared;
\* a channel resolved by name gets the first of its key's ids that has programme data.
C8_OrderedMultimap ==
    (~epg.isNull /\ guideText.wellFormed) =>
        LET nameIndex == buildNameIndex(epg.channelIdToName)
            ids == DeclaredIds(guideText.channels, {})
        IN  /\ DOMAIN nameIndex = {normalizeName(DeclaredName(ids[k])) : k \in 1..Len(ids)}
            /\ \A key \in DOMAIN nameIndex : nameIndex[key] = IdsWithKey(ids, key)
            /\ Drawn => \A i \in 1..Len(Items) :
                  ~IdMatches(channels[i]) =>
                      Items[i].hit = FirstHit(IdsWithKey(ids, NameKeyOf(channels[i])))

\* a drawn channel resolved by name to the second id of its key, the first having no data
C8_Witness ==
    /\ Drawn /\ ~epg.isNull /\ guideText.wellFormed
    /\ \E i \in 1..Len(Items) :
          LET ids == IdsWithKey(DeclaredIds(guideText.channels, {}), NameKeyOf(channels[i]))
          IN  /\ ~IdMatches(channels[i])
              /\ Len(ids) >= 2
              /\ ~HasData(ids[1])
              /\ Items[i].hit # <<>> /\ Items[i].hit[1].id = ids[2]

\* start and stop real instants, start <= now < stop
Contains(p, now) ==
    IsInstant(p.start) /\ IsInstant(p.stop) /\ p.start.t <= now /\ now < p.stop.t

\* every start a real instant, ascending
SortedByStart(list) ==
    /\ \A i \in 1..Len(list) : IsInstant(list[i].start)
    /\ \A i, j \in 1..Len(list) : i < j => list[i].start.t <= list[j].start.t

\* C9: over a list sorted by start, the current programme is the first entry with
\* start <= now < stop (both bounds as stated: a programme is current at its start and
\* no longer at its stop), and the next programme is the entry right after it, none
\* when the current one is last.
C9_CurrentAndFollowing ==
    Drawn => \A i \in 1..Len(Items) :
        LET r == Items[i]
            now == rendered[1].now
        IN  (r.hit # <<>> /\ SortedByStart(r.hit[1].progs)) =>
               LET list == r.hit[1].progs
                   at == {k \in 1..Len(list) : Contains(list[k], now)}
               IN  at # {} =>
                      LET k == CHOOSE k \in at : \A j \in at : k <= j
                      IN  /\ r.nn.now = <<list[k]>>
                          /\ r.nn.next = IF k < Len(list) THEN <<list[k + 1]>> ELSE <<>>

\* a drawn channel at the very stop of one entry and start of the following one, which
\* is current and has a successor
C9_Witness ==
    /\ Drawn
    /\ \E i \in 1..Len(Items) :
          /\ Items[i].hit # <<>> /\ SortedByStart(Items[i].hit[1].progs)
          /\ \E k \in 2..(Len(Items[i].hit[1].progs) - 1) :
                LET list == Items[i].hit[1].progs
                IN  /\ IsInstant(list[k - 1].stop) /\ list[k - 1].stop.t = rendered[1].now
                    /\ list[k].start.t = rendered[1].now
                    /\ Items[i].nn.now = <<list[k]>>
                    /\ Items[i].nn.next = <<list[k + 1]>>

\* C10: over a list sorted by start of which no entry contains now, there is no current
\* programme and the next one is the earliest entry starting after now; when now is at
\* or after every entry's stop, both are none.
C10_NothingOnAir ==
    Drawn => \A i \in 1..Len(Items) :
        LET r == Items[i]
            now == rendered[1].now
        IN  (r.hit # <<>> /\ SortedByStart(r.hit[1].progs)) =>
               LET list == r.hit[1].progs
                   later == {k \in 1..Len(list) : list[k].start.t > now}
               IN  (\A k \in 1..Len(list) : ~Contains(list[k], now)) =>
                      /\ r.nn.now = <<>>
                      /\ r.nn.next = IF later = {} THEN <<>>
                                     ELSE <<list[CHOOSE k \in later : \A j \in later : k <= j]>>
                      /\ (\A k \in 1..Len(list) :
                              IsInstant(list[k].stop) /\ now >= list[k].stop.t)
                            => r.nn = [now |-> <<>>, next |-> <<>>]

---------------------------------------------------------------------------
(* Properties of the cost of the resolution *)

\* C11: the resolution never builds a name index itself: in no rendering pass does the
\* resolve call of any channel invoke buildNameIndex (the index is built once per guide
\* load and reused by the calls).
C11_ResolveBuildsNoIndex ==
    Drawn => \A i \in 1..Len(Items) : Items[i].builds = 0

---------------------------------------------------------------------------
(* Properties of normalizeName *)

IsAlnum(c) == c \in Lowers \cup Uppers \cup Digits

\* the letters and digits of s from position i on, lower-cased, with one space wherever
\* two of them are not neighbours in s
RECURSIVE KeyFrom(_, _, _)
KeyFrom(s, i, last) ==
    IF i > Len(s) THEN <<>>
    ELSE IF ~IsAlnum(s[i]) THEN KeyFrom(s, i + 1, last)
    ELSE (IF last # 0 /\ last # i - 1 THEN <<" ">> ELSE <<>>)
             \o <<ToLower(s[i])>> \o KeyFrom(s, i + 1, i)

NoStraySpaces(k) ==
    /\ k # <<>> => k[1] # " " /\ k[Len(k)] # " "
    /\ \A i \in 1..(Len(k) - 1) : ~(k[i] = " " /\ k[i + 1] = " ")

\* C12: normalizeName returns, for every argument, the lower-cased maximal runs of
\* letters and digits of the argument joined by single spaces, with no leading, trailing
\* or doubled space; "" for an empty or undefined argument; a key normalises to itself;
\* "ESPN HD!!" and "espn-hd" both give "espn hd".
C12_NormalizeName ==
    nameOut # <<>> =>
        /\ nameOut[1] = KeyFrom(NameArg(nameIn), 1, 0)
        /\ NoStraySpaces(nameOut[1])
        /\ \A i \in 1..Len(nameOut[1]) : nameOut[1][i] \in Lowers \cup Digits \cup {" "}
        /\ (nameIn.undef \/ nameIn.s = <<>>) => nameOut[1] = <<>>
        /\ normalizeName(nameOut[1]) = nameOut[1]
        /\ nameIn.s \in {ESPN_HD, Espn_hd} => nameOut[1] = <<"e", "s", "p", "n", " ", "h", "d">>

\* the call on "ESPN HD!!" has returned "espn hd"
C12_Witness ==
    nameIn.s = ESPN_HD /\ nameOut = << <<"e", "s", "p", "n", " ", "h", "d">> >>

---------------------------------------------------------------------------
(* Properties of the favourites and of the selection *)

\* C17: a favourite copy of a channel of the playlist resolves, in one rendering, to the
\* guide list and the now/next result of that channel.
C17_FavouriteResolvesAlike ==
    (Drawn /\ query = <<>>) =>
        \A i \in 1..Len(Items), j \in 1..Len(rendered[1].favItems) :
            favorites[j] = FavCopy(channels[i]) =>
                /\ rendered[1].favItems[j].hit = Items[i].hit
                /\ rendered[1].favItems[j].nn = Items[i].nn

InBounds ==
    /\ selected.row + 1 \in 1..Len(Rows)
    /\ selected.col + 1 \in 1..Len(Rows[selected.row + 1].items)

\* C18: selected.row and selected.col are never negative; with at least one row shown and
\* the bounds effect run, the selected cell is a cell of a row; an up or down move sets
\* the column to 0.
C18_SelectedInBounds ==
    /\ [](/\ selected.row >= 0 /\ selected.col >= 0
          /\ (~effectDue /\ Len(Rows) > 0) => InBounds)
    /\ [][(MoveUp \/ MoveDown) => selected'.col = 0]_vars

============================================================================
